---- MODULE Spec2Model ----
(***************************************************************************)
(* Model of server.py of screenly-ose: the asset table, the asset folder,  *)
(* the scheduling predicate is_active, the playlist builder, the ingestion *)
(* pipeline prepare_asset and the request handlers that create, edit,      *)
(* schedule and delete assets.                                             *)
(*                                                                         *)
(* Encoding of Python values.                                              *)
(*   text      a sequence of tokens (a token stands for a run of           *)
(*             characters); " " is the whitespace token; '' is << >>.      *)
(*   dates     an integer: 1..MaxTime is a datetime, EmptyStr (0) is the   *)
(*             '' sentinel, NoneDate (-1) is None / SQL NULL.              *)
(*   date text an integer: 1..MaxTime is a well-formed date string for     *)
(*             that instant, EmptyStr is '', BadDate (-2) does not parse.  *)
(*   dict      a function whose DOMAIN is the set of keys present.         *)
(***************************************************************************)
EXTENDS Integers, Sequences, FiniteSets, TLC

\* ------------------------------------------------------------------ bounds
MaxTime == 3
MaxRows == 2
MaxListed == 3

\* ------------------------------------------------------- value encodings
EmptyStr == 0
NoneDate == 0 - 1
BadDate == 0 - 2
NullText == <<"NULL">>

Times == 1..MaxTime
DateValues == Times \cup {EmptyStr, NoneDate}

VARIABLES
    table_exists,   \* the assets table has been created (initiate_db)
    assets,         \* rows of the assets table, in insertion (rowid) order
    files,          \* the file system below asset_folder: path -> content
    op,             \* the operation the last step ran
    request,        \* what that operation was given
    response,       \* what it answered or returned
    prepared,       \* what its call of prepare_asset came to, if it made one
    fetched         \* what its call of fetch_assets() returned, if it made one

vars == <<table_exists, assets, files, op, request, response, prepared, fetched>>

\* --------------------------------------------------- Python truthiness
\* bool(x) of a date value: None and '' are false, a datetime is true
TruthyDate(d) == d \notin {EmptyStr, NoneDate}

\* ------------------------------------------------------------ is_active
\* server.py:38-57; clock is the value get_current_time() would return
is_active_strict_lost(asset, at_time, clock) ==
    IF ~(TruthyDate(asset["start_date"]) /\ TruthyDate(asset["end_date"]))
    THEN FALSE
    ELSE LET t == IF TruthyDate(at_time) THEN at_time ELSE clock
         IN  asset["start_date"] <= t /\ asset["end_date"] >= t

is_active(asset, at_time, clock) ==
    IF ~(TruthyDate(asset["start_date"]) /\ TruthyDate(asset["end_date"]))
    THEN FALSE
    ELSE LET t == IF TruthyDate(at_time) THEN at_time ELSE clock
         IN  asset["start_date"] < t /\ asset["end_date"] > t

\* ------------------------------------------------------------------ text
\* str.strip(): drop leading and trailing whitespace
RECURSIVE lstrip(_)
lstrip(s) == IF s # << >> /\ Head(s) = " " THEN lstrip(Tail(s)) ELSE s

RECURSIVE rstrip(_)
rstrip(s) ==
    IF s # << >> /\ s[Len(s)] = " " THEN rstrip(SubSeq(s, 1, Len(s) - 1)) ELSE s

strip(s) == rstrip(lstrip(s))

\* Python's "needle in text" for a one-token needle
Contains(needle, s) == \E i \in 1..Len(s) : s[i] = needle

\* dict[key] = value
Put(d, key, value) == (key :> value) @@ d

EmptyDict == [k \in {} |-> << >>]

\* hashlib.md5(text).hexdigest(): a digest that determines its input
md5(s) == <<"md5:">> \o s

\* settings.asset_folder and os.path.join(asset_folder, asset_id)
asset_folder == "asset_folder/"

path_join(folder, name) == <<folder>> \o name

\* --------------------------------------------------------- validate_uri
\* server.py:129-147; a URI is <<scheme, netloc, path...>> once urlparse'd
HttpSchemes == {"http://", "https://"}

validate_uri(uri) ==
    /\ Len(uri) >= 1 /\ uri[1] \in HttpSchemes
    /\ Len(uri) >= 2 /\ uri[2] = "host"

\* ---------------------------------------------------- the upload stream
\* request.files.file_upload.file: a stream with a read position
OpenStream(bytes) == [bytes |-> bytes, pos |-> 0]

\* file.read(): everything from the position on; the position moves to the end
read(stream) ==
    [data   |-> SubSeq(stream.bytes, stream.pos + 1, Len(stream.bytes)),
     stream |-> [stream EXCEPT !.pos = Len(stream.bytes)]]

\* open(path, 'w'); f.write(content)
write_file(fs, path, content) == (path :> content) @@ fs

\* ------------------------------------------------------- prepare_asset
\* data.get(key, '').strip()   (server.py:172-173)
get(data, key) == strip(data[key])

\* server.py:175-178, the all([...]) test; request.files.file_upload is ''
\* when no file was sent
has_required_name_unchecked(data, uploaded) ==
    /\ get(data, "uri") # << >> \/ uploaded
    /\ get(data, "mimetype") # << >>

has_required(data, uploaded) ==
    /\ get(data, "name") # << >>
    /\ get(data, "uri") # << >> \/ uploaded
    /\ get(data, "mimetype") # << >>

NoError == ""
ErrNotEnough ==
    "Not enough information provided. Please specify 'name', 'uri', and 'mimetype'."
ErrWebUpload == "Invalid combination. Can't upload a web resource."
ErrBoth == "Invalid combination. Can't select both URI and a file."
ErrInvalidUrl == "Invalid URL. Failed to add asset."
ErrRetrieve == "Could not retrieve file. Check the asset URL."
ErrDateFormat == "time data does not match format '%Y-%m-%dT%H:%M:%S'"

\* server.py:192-196, the two combination checks in their order
combination_error_swapped(uri, file_upload, mimetype) ==
    IF uri # << >> /\ file_upload THEN ErrBoth
    ELSE IF file_upload /\ Contains("web", mimetype) THEN ErrWebUpload
    ELSE NoError

combination_error(uri, file_upload, mimetype) ==
    IF file_upload /\ Contains("web", mimetype) THEN ErrWebUpload
    ELSE IF uri # << >> /\ file_upload THEN ErrBoth
    ELSE NoError

\* server.py:198-216: what the URI branch asks of the remote server
remote_request(uri, mimetype) ==
    [method |-> IF Contains("image", mimetype) THEN "GET" ELSE "HEAD",
     uri    |-> uri]

\* server.py:218-223: hash the upload, then write it below asset_folder
store_upload(fs, bytes) ==
    LET first    == read(OpenStream(bytes))
        asset_id == md5(first.data)
        uri      == path_join(asset_folder, asset_id)
        second   == read(first.stream)
    IN  [asset_id |-> asset_id, uri |-> uri,
         files |-> write_file(fs, uri, second.data)]

\* server.py:228-232: the duration of the record
with_duration(asset, mimetype, duration) ==
    LET a == IF Contains("video", mimetype)
             THEN Put(asset, "duration", <<"N/A">>) ELSE asset
    IN  IF duration # << >> THEN Put(a, "duration", duration) ELSE a

\* datetime.strptime(text.split(".")[0], "%Y-%m-%dT%H:%M:%S"): the text
\* parses iff it is well formed, and then gives the instant it denotes
ParsesAsDate(text) == text \in Times

strptime(text) == text

\* server.py:234-242: one of start_date / end_date
with_date(asset, key, text) ==
    Put(asset, key, IF text # EmptyStr THEN strptime(text) ELSE EmptyStr)

Raise(message, fs, remote) ==
    [raised |-> TRUE, error |-> message, asset |-> EmptyDict,
     files |-> fs, remote |-> remote]

\* server.py:165-246. req: the form fields, the upload, and the status the
\* remote server answers with; fs: the asset folder before the call.
\* req.data is request.POST (or the JSON of its 'model' field) with a key
\* that is missing read as ''; the result carries the folder after the call
\* and the remote requests made, whether or not an exception was raised.
prepare_asset(req, fs) ==
    LET data == req.data
        uploaded == req.upload.present
    IN
    IF ~has_required(data, uploaded)
    THEN Raise(ErrNotEnough, fs, << >>)
    ELSE
    LET mimetype == get(data, "mimetype")
        asset0 == [name |-> get(data, "name"), mimetype |-> mimetype]
        uri == get(data, "uri")
        file_upload == uploaded
        comb == combination_error(uri, file_upload, mimetype)
    IN
    IF comb # NoError THEN Raise(comb, fs, << >>)
    ELSE IF uri # << >> /\ ~validate_uri(uri) THEN Raise(ErrInvalidUrl, fs, << >>)
    ELSE
    LET remote == IF uri # << >> THEN <<remote_request(uri, mimetype)>> ELSE << >>
    IN
    IF uri # << >> /\ req.status # 200 THEN Raise(ErrRetrieve, fs, remote)
    ELSE
    LET asset1 == IF uri # << >>
                  THEN Put(Put(asset0, "asset_id", md5(asset0["name"] \o uri)),
                           "uri", uri)
                  ELSE asset0
        up     == store_upload(fs, req.upload.bytes)
        asset2 == IF file_upload
                  THEN Put(Put(asset1, "asset_id", up.asset_id), "uri", up.uri)
                  ELSE asset1
        fs2    == IF file_upload THEN up.files ELSE fs
        asset3 == with_duration(asset2, mimetype, get(data, "duration"))
    IN
    IF data["start_date"] # EmptyStr /\ ~ParsesAsDate(data["start_date"])
    THEN Raise(ErrDateFormat, fs2, remote)
    ELSE
    LET asset4 == with_date(asset3, "start_date", data["start_date"])
    IN
    IF data["end_date"] # EmptyStr /\ ~ParsesAsDate(data["end_date"])
    THEN Raise(ErrDateFormat, fs2, remote)
    ELSE [raised |-> FALSE, error |-> NoError,
          asset |-> with_date(asset4, "end_date", data["end_date"]),
          files |-> fs2, remote |-> remote]

\* ==================================================== the assets table
\* server.py:125, CREATE TABLE assets (...): no PRIMARY KEY, no UNIQUE
Columns ==
    {"asset_id", "name", "uri", "md5", "start_date", "end_date", "duration",
     "mimetype"}

DateColumns == {"start_date", "end_date"}

\* SQL NULL of a column
Null(column) == IF column \in DateColumns THEN NoneDate ELSE NullText

\* INSERT INTO assets (keys of asset) VALUES (values of asset)
insert_row(asset) ==
    [c \in Columns |-> IF c \in DOMAIN asset THEN asset[c] ELSE Null(c)]

\* UPDATE assets SET key=value, ... WHERE asset_id=?
update_rows(rows, changes, asset_id) ==
    [i \in 1..Len(rows) |->
        IF rows[i]["asset_id"] = asset_id
        THEN [c \in Columns |->
                 IF c \in DOMAIN changes THEN changes[c] ELSE rows[i][c]]
        ELSE rows[i]]

\* DELETE FROM assets WHERE asset_id=?
RECURSIVE delete_rows(_, _)
delete_rows(rows, asset_id) ==
    IF rows = << >> THEN << >>
    ELSE IF Head(rows)["asset_id"] = asset_id
         THEN delete_rows(Tail(rows), asset_id)
         ELSE <<Head(rows)>> \o delete_rows(Tail(rows), asset_id)

\* del asset['asset_id']
without_key(d, key) == [k \in DOMAIN d \ {key} |-> d[k]]

\* --------------------------------------------------------- fetch_assets
\* the order of text under ORDER BY name (binary collation)
TokenRank(t) ==
    CASE t = " " -> 1
      [] t = "a" -> 2
      [] t = "b" -> 3
      [] OTHER   -> 4

RECURSIVE TextLess(_, _)
TextLess(s, t) ==
    IF t = << >> THEN FALSE
    ELSE IF s = << >> THEN TRUE
    ELSE IF TokenRank(Head(s)) # TokenRank(Head(t))
         THEN TokenRank(Head(s)) < TokenRank(Head(t))
         ELSE TextLess(Tail(s), Tail(t))

FetchKeys ==
    {"asset_id", "name", "uri", "start_date", "end_date", "duration", "mimetype"}

\* server.py:72-92: every list the query may return: all rows, ordered by
\* name; rows of equal name come in an order SQL leaves open
fetch_assets(rows) ==
    LET n == Len(rows)
        orders == {f \in [1..n -> 1..n] :
                     /\ \A i, j \in 1..n : i # j => f[i] # f[j]
                     /\ \A i, j \in 1..n :
                          i < j => ~TextLess(rows[f[j]]["name"], rows[f[i]]["name"])}
    IN  {[i \in 1..n |-> [k \in FetchKeys |-> rows[f[i]][k]]] : f \in orders}

\* ---------------------------------------------------------- get_playlist
\* dateutils.datestring.date_to_string: the display text of a datetime
date_to_string(d) == <<"display", d>>

\* server.py:60-69, the loop over the fetched assets
RECURSIVE playlist_of_unfiltered(_, _)
playlist_of_unfiltered(list, clock) ==
    IF list = << >> THEN << >>
    ELSE LET asset == Head(list)
             rest == playlist_of_unfiltered(Tail(list), clock)
         IN  <<asset>> \o rest

RECURSIVE playlist_of(_, _)
playlist_of(list, clock) ==
    IF list = << >> THEN << >>
    ELSE LET asset == Head(list)
             rest == playlist_of(Tail(list), clock)
         IN  IF is_active(asset, NoneDate, clock)
             THEN <<[asset EXCEPT
                       !["start_date"] = date_to_string(asset["start_date"]),
                       !["end_date"] = date_to_string(asset["end_date"])]>>
                  \o rest
             ELSE rest

\* ------------------------------------------------------------ responses
\* server.py:155-158
api_error(error) ==
    [kind |-> "json", status |-> 500, body |-> [error |-> error]]

\* bottle's redirect(url)
redirect(url) == [kind |-> "redirect", location |-> url]

\* template('message', header=..., message=...)
message_page(header, message) ==
    [kind |-> "page", header |-> header, message |-> message]

\* an exception that leaves the handler uncaught
unhandled(exception) == [kind |-> "unhandled", exception |-> exception]

ErrNoTable == "no such table: assets"

\* ------------------------------------------ values of the bookkeeping
EmptyFs == [path \in {} |-> << >>]

NoRequest == [none |-> TRUE]
NoResponse == [kind |-> "none"]
NoPrepared ==
    [raised |-> FALSE, error |-> NoError, asset |-> EmptyDict, remote |-> << >>]

\* what a handler keeps of prepare_asset's outcome
Outcome(p) ==
    [raised |-> p.raised, error |-> p.error, asset |-> p.asset,
     remote |-> p.remote]

\* ============================================================= handlers
\* Each handler is an operator from the request and the state before to
\* the state after and the response.
Result(rows, fs, resp, prep) ==
    [assets |-> rows, files |-> fs, response |-> resp, prepared |-> prep]

\* server.py:260-274, POST /api/assets
add_asset_uncaught(req, rows, fs, exists) ==
    LET p == prepare_asset(req, fs)
    IN  IF p.raised
        THEN Result(rows, p.files, unhandled(p.error), Outcome(p))
        ELSE IF ~exists
        THEN Result(rows, p.files, unhandled(ErrNoTable), Outcome(p))
        ELSE Result(Append(rows, insert_row(p.asset)), p.files,
                    redirect("/"), Outcome(p))

add_asset(req, rows, fs, exists) ==
    LET p == prepare_asset(req, fs)
    IN  IF p.raised
        THEN Result(rows, p.files, api_error(p.error), Outcome(p))
        ELSE IF ~exists
        THEN Result(rows, p.files, api_error(ErrNoTable), Outcome(p))
        ELSE Result(Append(rows, insert_row(p.asset)), p.files,
                    redirect("/"), Outcome(p))

\* server.py:277-291, POST /api/assets/:asset_id
edit_asset_checked(asset_id, req, rows, fs, exists) ==
    LET p == prepare_asset(req, fs)
    IN  IF p.raised
        THEN Result(rows, p.files, api_error(p.error), Outcome(p))
        ELSE IF ~exists
        THEN Result(rows, p.files, api_error(ErrNoTable), Outcome(p))
        ELSE IF \A i \in 1..Len(rows) : rows[i]["asset_id"] # asset_id
        THEN Result(rows, p.files, api_error("No such asset."), Outcome(p))
        ELSE Result(update_rows(rows, without_key(p.asset, "asset_id"), asset_id),
                    p.files, redirect("/"), Outcome(p))

edit_asset(asset_id, req, rows, fs, exists) ==
    LET p == prepare_asset(req, fs)
    IN  IF p.raised
        THEN Result(rows, p.files, api_error(p.error), Outcome(p))
        ELSE IF ~exists
        THEN Result(rows, p.files, api_error(ErrNoTable), Outcome(p))
        ELSE Result(update_rows(rows, without_key(p.asset, "asset_id"), asset_id),
                    p.files, redirect("/"), Outcome(p))

\* server.py:372-381: hash the upload, then write it below asset_folder
process_upload(fs, bytes) ==
    LET first     == read(OpenStream(bytes))
        asset_id  == md5(first.data)
        local_uri == path_join(asset_folder, asset_id)
        asset_file_input == read(first.stream)
    IN  [asset_id |-> asset_id, uri |-> local_uri,
         files |-> write_file(fs, local_uri, asset_file_input.data)]

\* server.py:310-397, POST /process_asset; decodable: PIL can open what the
\* remote server sent
process_asset(req, decodable, rows, fs, exists) ==
    LET data == req.data
        invalid == Result(rows, fs, message_page("Ops!", "Invalid input."),
                          NoPrepared)
    IN
    IF strip(data["name"]) = << >> THEN invalid
    ELSE IF strip(data["uri"]) = << >> /\ ~req.upload.present
    THEN Result(rows, fs, unhandled("AttributeError"), NoPrepared)
    ELSE IF strip(data["mimetype"]) = << >> THEN invalid
    ELSE
    LET name == data["name"]
        mimetype == strip(data["mimetype"])
        uri == strip(data["uri"])
        file_upload == req.upload.present
    IN
    IF file_upload /\ Contains("web", mimetype)
    THEN Result(rows, fs,
                message_page("Ops!", "Invalid combination. Can't upload web resource."),
                NoPrepared)
    ELSE IF uri # << >> /\ file_upload
    THEN Result(rows, fs, message_page("Ops!", ErrBoth), NoPrepared)
    ELSE IF uri # << >> /\ ~validate_uri(uri)
    THEN Result(rows, fs, message_page("Ops!", ErrInvalidUrl), NoPrepared)
    ELSE
    LET remote == IF uri # << >> THEN <<remote_request(uri, mimetype)>> ELSE << >>
        prep == [NoPrepared EXCEPT !.remote = remote]
    IN
    IF uri # << >> /\ req.status # 200
    THEN Result(rows, fs, message_page("Ops!", "Unable to fetch file."), prep)
    ELSE IF uri # << >> /\ Contains("image", mimetype) /\ ~decodable
    THEN Result(rows, fs, unhandled("IOError"), prep)
    ELSE
    LET up == process_upload(fs, req.upload.bytes)
        asset_id == IF file_upload THEN up.asset_id ELSE md5(name \o uri)
        fs2 == IF file_upload THEN up.files ELSE fs
        row == [asset_id |-> asset_id, name |-> name,
                uri |-> IF file_upload THEN up.uri ELSE uri,
                start_date |-> EmptyStr, end_date |-> EmptyStr,
                duration |-> << >>, mimetype |-> mimetype]
    IN
    IF ~exists THEN Result(rows, fs2, unhandled(ErrNoTable), prep)
    ELSE Result(Append(rows, insert_row(row)), fs2,
                message_page("Yay!", <<"Added asset (">> \o asset_id
                                      \o <<") to the database.">>),
                [prep EXCEPT !.asset = row])

\* datetime.strptime(text, '%Y-%m-%d @ %H:%M') of the form routes
ParsesAsFormDate(text) == text \in Times

\* server.py:400-439, POST /process_schedule
process_schedule(form, rows, fs, exists) ==
    IF strip(form.asset) = << >> \/ form.start = EmptyStr \/ form.end = EmptyStr
    THEN Result(rows, fs, message_page("Ops!", "Failed to process schedule."),
                NoPrepared)
    ELSE IF ~ParsesAsFormDate(form.start) \/ ~ParsesAsFormDate(form.end)
    THEN Result(rows, fs, unhandled("ValueError"), NoPrepared)
    ELSE IF ~exists
    THEN Result(rows, fs, unhandled(ErrNoTable), NoPrepared)
    ELSE Result(update_rows(rows,
                            [start_date |-> strptime(form.start),
                             end_date |-> strptime(form.end),
                             duration |-> strip(form.duration)],
                            strip(form.asset)),
                fs, message_page("Yes!", "Successfully scheduled asset."),
                NoPrepared)

\* server.py:442-489, POST /update_asset
update_asset(form, rows, fs, exists) ==
    IF \/ strip(form.asset_id) = << >> \/ strip(form.name) = << >>
       \/ strip(form.uri) = << >> \/ strip(form.mimetype) = << >>
    THEN Result(rows, fs, message_page("Ops!", "Failed to update asset."),
                NoPrepared)
    ELSE
    LET uri == strip(form.uri)
    IN
    IF ~validate_uri(uri) /\ ~Contains(asset_folder, uri)
    THEN Result(rows, fs,
                message_page("Ops!", "Invalid URL. Failed to update asset."),
                NoPrepared)
    ELSE IF ~exists
    THEN Result(rows, fs, unhandled(ErrNoTable), NoPrepared)
    ELSE Result(update_rows(rows,
                   [start_date |-> IF ParsesAsFormDate(form.start)
                                   THEN strptime(form.start) ELSE NoneDate,
                    end_date |-> IF ParsesAsFormDate(form.end)
                                 THEN strptime(form.end) ELSE NoneDate,
                    duration |-> strip(form.duration),
                    name |-> form.name, uri |-> uri,
                    mimetype |-> strip(form.mimetype)],
                   strip(form.asset_id)),
                fs, message_page("Yes!", "Successfully updated asset."),
                NoPrepared)

\* os.remove(path)
remove_file(fs, path) == [q \in DOMAIN fs \ {path} |-> fs[q]]

\* server.py:492-511, GET /delete_asset/:asset_id; removable: os.remove
\* succeeds on the file
delete_asset(asset_id, removable, rows, fs, exists) ==
    IF ~exists THEN Result(rows, fs, unhandled(ErrNoTable), NoPrepared)
    ELSE
    LET left == delete_rows(rows, asset_id)
        local_uri == path_join(asset_folder, asset_id)
    IN  IF local_uri \in DOMAIN fs /\ ~removable
        THEN Result(left, fs, message_page("Ops!", "Failed to delete asset."),
                    NoPrepared)
        ELSE Result(left,
                    IF local_uri \in DOMAIN fs THEN remove_file(fs, local_uri)
                    ELSE fs,
                    message_page("Success!", "Deleted asset."), NoPrepared)

\* ===================================================== initial state
\* a fresh installation: no assets table yet (only "/" and "/splash_page"
\* call initiate_db), an empty asset folder (server.py:651-656)
Init ==
    /\ table_exists = FALSE
    /\ assets = << >>
    /\ files = EmptyFs
    /\ op = "none"
    /\ request = NoRequest
    /\ response = NoResponse
    /\ prepared = NoPrepared
    /\ fetched = << >>

\* ============================== is_active applied to bounded inputs
ActiveInputs ==
    [asset   : [start_date : DateValues, end_date : DateValues],
     at_time : Times \cup {NoneDate},
     now     : Times]

InitActive ==
    /\ table_exists = FALSE
    /\ assets = << >>
    /\ files = EmptyFs
    /\ op = "none"
    /\ request \in ActiveInputs
    /\ response = NoResponse
    /\ prepared = NoPrepared
    /\ fetched = << >>

IsActiveCall ==
    /\ op = "none"
    /\ op' = "is_active"
    /\ response' = [kind |-> "value",
                    value |-> is_active(request.asset, request.at_time, request.now)]
    /\ UNCHANGED <<table_exists, assets, files, request, prepared, fetched>>

NextActive == IsActiveCall

SpecActive == InitActive /\ [][NextActive]_vars

\* =========================== prepare_asset applied to bounded inputs
Names == {<< >>, <<" ">>, <<"a">>, <<" ", "a", " ">>}
Uris == {<< >>, <<" ">>, <<"http://", "host", "/p">>, <<"ftp://", "host">>,
         <<"http://">>}
Mimetypes == {<< >>, <<"image">>, <<"video">>, <<"web">>, <<"video", "/", "web", "m">>}
Durations == {<< >>, <<"5">>}
DateTexts == {EmptyStr, 1, MaxTime, BadDate}
Contents == {<< >>, <<"x">>, <<"x", "y">>}
Uploads == {[present |-> FALSE, bytes |-> << >>]}
           \cup [present : {TRUE}, bytes : Contents]
Statuses == {200, 404}

Submissions ==
    [data : [name : Names, uri : Uris, mimetype : Mimetypes,
             duration : Durations, start_date : DateTexts,
             end_date : DateTexts],
     upload : Uploads,
     status : Statuses]

InitPrepare ==
    /\ table_exists = FALSE
    /\ assets = << >>
    /\ files \in {EmptyFs, store_upload(EmptyFs, <<"x">>).files}
    /\ op = "none"
    /\ request \in Submissions
    /\ response = NoResponse
    /\ prepared = NoPrepared
    /\ fetched = << >>

PrepareCall ==
    /\ op = "none"
    /\ op' = "prepare_asset"
    /\ LET p == prepare_asset(request, files)
       IN  /\ prepared' = Outcome(p)
           /\ files' = p.files
           /\ response' = IF p.raised
                          THEN [kind |-> "raised", value |-> p.error]
                          ELSE [kind |-> "value", value |-> p.asset]
    /\ UNCHANGED <<table_exists, assets, request, fetched>>

NextPrepare == PrepareCall

SpecPrepare == InitPrepare /\ [][NextPrepare]_vars

\* ================================== the server: requests in any order
HttpUri == <<"http://", "host", "/p">>
NoUpload == [present |-> FALSE, bytes |-> << >>]

\* the submissions the create and edit routes are driven with: by URI or
\* by upload, by both, by neither, a start_date that does not parse, a
\* remote server that answers 404
StoreSubmissions ==
    {sub \in [data : [name : {<<"a">>}, uri : {<< >>, HttpUri},
                      mimetype : {<<"image">>}, duration : {<<"5">>},
                      start_date : {EmptyStr, BadDate},
                      end_date : {EmptyStr}],
              upload : {NoUpload, [present |-> TRUE, bytes |-> <<"x">>]},
              status : Statuses] :
        sub.status = 404 =>
            /\ sub.data.start_date = EmptyStr
            /\ sub.data.uri # << >>
            /\ ~sub.upload.present}

\* the submissions the playlist is fed with: two names, a window around
\* the middle instant, a window lacking its end, no window
PlaylistSubmissions ==
    {sub \in [data : [name : {<<"a">>, <<"b">>}, uri : {HttpUri},
                      mimetype : {<<"image">>}, duration : {<<"5">>},
                      start_date : {EmptyStr, 1},
                      end_date : {EmptyStr, MaxTime}],
              upload : {NoUpload},
              status : {200}] :
        sub.data.end_date = MaxTime => sub.data.start_date = 1}

\* the asset ids requests name: those of the stored rows, that of an
\* upload, and one that nothing has
AssetIds ==
    {assets[i]["asset_id"] : i \in 1..Len(assets)}
        \cup {md5(<<"x">>), <<"missing">>}

ScheduleForms ==
    [asset : AssetIds, start : {1, BadDate}, end : {MaxTime},
     duration : {<<"5">>}]

UpdateForms ==
    [asset_id : AssetIds, name : {<<"a">>},
     uri : {HttpUri, <<"ftp://", "host">>}, mimetype : {<<"image">>},
     duration : {<<"5">>}, start : {1}, end : {MaxTime}]

\* an update whose dates do not parse stores NULL dates
PlaylistUpdateForms ==
    [asset_id : AssetIds, name : {<<"a">>}, uri : {HttpUri},
     mimetype : {<<"image">>}, duration : {<<"5">>},
     start : {BadDate}, end : {MaxTime}]

Request(asset_id, upload, clock) ==
    [asset_id |-> asset_id, upload |-> upload, now |-> clock]

Apply(name, req, r) ==
    /\ op' = name
    /\ request' = req
    /\ assets' = r.assets
    /\ files' = r.files
    /\ response' = r.response
    /\ prepared' = r.prepared
    /\ fetched' = << >>
    /\ UNCHANGED table_exists

\* server.py:298-302, GET /: initiate_db() creates the table if it is missing
ViewIndex ==
    /\ op' = "index"
    /\ table_exists' = TRUE
    /\ request' = NoRequest
    /\ response' = [kind |-> "page", header |-> "index", message |-> "index"]
    /\ prepared' = NoPrepared
    /\ fetched' = << >>
    /\ UNCHANGED <<assets, files>>

AddAssetFrom(submissions, cap) ==
    \E sub \in submissions :
        /\ Len(assets) < cap
        /\ Apply("add_asset", Request(NullText, sub.upload, EmptyStr),
                 add_asset(sub, assets, files, table_exists))

AddAsset == AddAssetFrom(StoreSubmissions, MaxRows)

EditAsset ==
    \E sub \in StoreSubmissions, id \in AssetIds :
        Apply("edit_asset", Request(id, sub.upload, EmptyStr),
              edit_asset(id, sub, assets, files, table_exists))

ProcessAsset ==
    \E sub \in StoreSubmissions, decodable \in BOOLEAN :
        /\ Len(assets) < MaxRows
        /\ Apply("process_asset", Request(NullText, sub.upload, EmptyStr),
                 process_asset(sub, decodable, assets, files, table_exists))

ProcessSchedule ==
    \E form \in ScheduleForms :
        Apply("process_schedule", Request(form.asset, NoUpload, EmptyStr),
              process_schedule(form, assets, files, table_exists))

UpdateAssetFrom(forms) ==
    \E form \in forms :
        Apply("update_asset", Request(form.asset_id, NoUpload, EmptyStr),
              update_asset(form, assets, files, table_exists))

UpdateAsset == UpdateAssetFrom(UpdateForms)

DeleteAsset ==
    \E id \in AssetIds, removable \in BOOLEAN :
        Apply("delete_asset", Request(id, NoUpload, EmptyStr),
              delete_asset(id, removable, assets, files, table_exists))

\* server.py:557-561, GET /view_playlist: get_playlist() over fetch_assets();
\* clock: what get_current_time() returns while the request is served
ViewPlaylist ==
    \E clock \in Times :
        /\ op' = "get_playlist"
        /\ request' = Request(NullText, NoUpload, clock)
        /\ prepared' = NoPrepared
        /\ IF table_exists
           THEN \E list \in fetch_assets(assets) :
                   /\ fetched' = list
                   /\ response' = [kind |-> "value",
                                   value |-> playlist_of(list, clock)]
           ELSE /\ fetched' = << >>
                /\ response' = unhandled(ErrNoTable)
        /\ UNCHANGED <<table_exists, assets, files>>

Next ==
    \/ ViewIndex
    \/ AddAsset
    \/ EditAsset
    \/ ProcessAsset
    \/ ProcessSchedule
    \/ UpdateAsset
    \/ DeleteAsset

Spec == Init /\ [][Next]_vars

\* ------------------------------- the server as the playlist client sees it
PlaylistAddAsset == AddAssetFrom(PlaylistSubmissions, MaxListed)

PlaylistUpdateAsset == UpdateAssetFrom(PlaylistUpdateForms)

NextPlaylist ==
    \/ ViewIndex
    \/ PlaylistAddAsset
    \/ PlaylistUpdateAsset
    \/ ViewPlaylist

SpecPlaylist == Init /\ [][NextPlaylist]_vars

\* =============================================================== claims
\* a boundary of the active window that is present: a datetime, neither
\* NULL nor the '' sentinel
Present(d) == d \in Times

\* C1: for every asset and every timestamp T, is_active(asset, T) is true
\* if and only if start_date and end_date are both present and
\* start_date < T < end_date, both strictly; so it is false at T = start_date,
\* at T = end_date, and at every T when a boundary is NULL or ''.
C1_ActiveIffStrictlyInside ==
    op = "is_active" /\ request.at_time \in Times =>
        LET start == request.asset.start_date
            end   == request.asset.end_date
            T     == request.at_time
        IN  /\ response.value <=>
                 (Present(start) /\ Present(end) /\ start < T /\ T < end)
            /\ T \in {start, end} => ~response.value
            /\ start \in {NoneDate, EmptyStr} \/ end \in {NoneDate, EmptyStr}
                   => ~response.value

\* is_active was asked about the very instant a window opens
C1_Witness ==
    /\ op = "is_active"
    /\ Present(request.asset.start_date) /\ Present(request.asset.end_date)
    /\ request.at_time = request.asset.start_date
    /\ request.at_time < request.asset.end_date
    /\ response.value = FALSE

\* ---------------------------------------------------------------- C2
\* how often a record occurs in a list
Occurrences(list, record) == Cardinality({i \in 1..Len(list) : list[i] = record})

\* what fetch_assets selects of a stored row
Selected(row) == [k \in FetchKeys |-> row[k]]

\* the asset is inside its window at T, as section 3 of the specification
\* defines "active"
ActiveAt(asset, T) ==
    /\ Present(asset["start_date"]) /\ Present(asset["end_date"])
    /\ asset["start_date"] < T /\ T < asset["end_date"]

\* entry is the fetched asset with its two dates in display form
Displays(entry, asset) ==
    /\ \A k \in FetchKeys \ DateColumns : entry[k] = asset[k]
    /\ \A k \in DateColumns : entry[k] = date_to_string(asset[k])

\* C2: get_playlist returns exactly the assets of fetch_assets() that are
\* active at the current time, in the relative order in which the store
\* returned them (all stored rows, ordered by name), and the stored rows are
\* as they were.
C2_PlaylistIsStableFilter ==
    [][op' = "get_playlist" /\ response'.kind = "value" =>
        LET list   == fetched'
            T      == request'.now
            result == response'.value
            active == {i \in 1..Len(list) : ActiveAt(list[i], T)}
        IN  /\ assets' = assets
            /\ Len(list) = Len(assets)
            /\ \A i \in 1..Len(assets) :
                   Occurrences(list, Selected(assets[i]))
                     = Occurrences([j \in 1..Len(assets) |-> Selected(assets[j])],
                                   Selected(assets[i]))
            /\ \A i, j \in 1..Len(list) :
                   i < j => ~TextLess(list[j]["name"], list[i]["name"])
            /\ Len(result) = Cardinality(active)
            /\ \A i \in active :
                   Displays(result[Cardinality({j \in active : j <= i})], list[i])
    ]_vars

\* three assets are stored, "b" before "a"; at the current time the playlist
\* keeps two of them, "a" first, and drops one
C2_Witness ==
    /\ op = "get_playlist"
    /\ response.kind = "value"
    /\ Len(fetched) = 3
    /\ Len(response.value) = 2
    /\ assets[1]["name"] = <<"b">>
    /\ response.value[1]["name"] = <<"a">>
    /\ response.value[2]["name"] = <<"b">>

\* ---------------------------------------------------------------- C3
\* C3: asset_id is a unique key of the assets table: whatever requests were
\* served, no two stored rows have the same asset_id.
C3_AssetIdUnique ==
    \A i, j \in 1..Len(assets) :
        i # j => assets[i]["asset_id"] # assets[j]["asset_id"]

\* ---------------------------------------------------------------- C7
\* the JSON envelope {"error": message} with status 500
IsErrorEnvelope(resp) ==
    /\ resp.kind = "json"
    /\ resp.status = 500
    /\ DOMAIN resp.body = {"error"}

\* C7: POST /api/assets has two outcomes. If validation or the insert
\* fails it answers the JSON envelope {"error": message} with status 500 and
\* the assets table is as before; otherwise exactly one row, built from the
\* prepared record, is appended and the answer is a redirect to "/". No
\* failure leaves the handler uncaught.
C7_AddAssetTwoOutcomes ==
    [][op' = "add_asset" =>
        IF prepared'.raised \/ ~table_exists
        THEN /\ IsErrorEnvelope(response')
             /\ response'.body.error =
                    (IF prepared'.raised THEN prepared'.error ELSE ErrNoTable)
             /\ assets' = assets
        ELSE /\ response' = redirect("/")
             /\ assets' = Append(assets, insert_row(prepared'.asset))
             /\ \A c \in DOMAIN prepared'.asset :
                    assets'[Len(assets')][c] = prepared'.asset[c]
    ]_vars

\* an upload passed validation and was written, the insert failed for want
\* of the table, and the failure was answered with the envelope
C7_Witness ==
    /\ op = "add_asset"
    /\ ~prepared.raised
    /\ request.upload.present
    /\ IsErrorEnvelope(response)
    /\ response.body.error = ErrNoTable
    /\ assets = << >>

\* ---------------------------------------------------------------- C8
HasRow(rows, asset_id) == \E i \in 1..Len(rows) : rows[i]["asset_id"] = asset_id

\* C8: GET /delete_asset/:asset_id always answers with a rendered message
\* page; for an asset_id without a row it leaves every stored row and every
\* stored file as it was; for an asset_id with a row, afterwards no row has
\* that asset_id and the other rows are as they were.
C8_DeleteNeverCrashes ==
    [][op' = "delete_asset" =>
        LET id == request'.asset_id
        IN  /\ response'.kind = "page"
            /\ ~HasRow(assets, id) => assets' = assets /\ files' = files
            /\ HasRow(assets, id) =>
                  /\ ~HasRow(assets', id)
                  /\ assets' = SelectSeq(assets, LAMBDA r : r["asset_id"] # id)
    ]_vars

\* ---------------------------------------------------------------- C9
\* C9 as stated: editing an asset_id that has no row, with a submission that
\* is valid otherwise, is answered with the JSON error envelope and status
\* 500, not with the redirect, and the assets table is as before.
C9_EditMissingIsError ==
    [][/\ op' = "edit_asset"
       /\ ~prepared'.raised
       /\ ~HasRow(assets, request'.asset_id)
       => /\ IsErrorEnvelope(response')
          /\ assets' = assets
    ]_vars

\* C9 as amended: editing an asset_id that has no row, with a submission
\* that is valid otherwise, is not reported: when the assets table exists
\* the UPDATE matches no row, the answer is the redirect to "/" and the
\* table is as before; the error envelope is answered only when the UPDATE
\* statement itself fails.
C9_EditMissingIsSilent ==
    [][/\ op' = "edit_asset"
       /\ ~prepared'.raised
       /\ ~HasRow(assets, request'.asset_id)
       => /\ assets' = assets
          /\ IF table_exists
             THEN response' = redirect("/")
             ELSE IsErrorEnvelope(response') /\ response'.body.error = ErrNoTable
    ]_vars

\* a valid submission edited an asset_id that no stored row has, next to a
\* row that has another asset_id, and was answered with the redirect
C9_Witness ==
    /\ op = "edit_asset"
    /\ table_exists
    /\ ~prepared.raised
    /\ assets # << >>
    /\ ~HasRow(assets, request.asset_id)
    /\ response = redirect("/")

\* ---------------------------------------------------------------- C4
\* C4: prepare_asset raises, and returns no record, whenever the name is
\* empty after trimming, or the mimetype is empty, or neither a non-empty URI
\* nor an uploaded file is present; every record it returns has a name, a
\* mimetype, an asset_id and a uri.
C4_RequiredFields ==
    op = "prepare_asset" =>
        LET data == request.data
        IN  /\ (\/ strip(data.name) = << >>
                \/ strip(data.mimetype) = << >>
                \/ strip(data.uri) = << >> /\ ~request.upload.present)
               => /\ response.kind = "raised"
                  /\ DOMAIN prepared.asset = {}
            /\ response.kind = "value" =>
                  /\ {"name", "mimetype", "asset_id", "uri"}
                        \subseteq DOMAIN response.value
                  /\ response.value["name"] # << >>
                  /\ response.value["mimetype"] # << >>

\* a name of whitespace only, with a file and a mimetype, was rejected
C4_Witness ==
    /\ op = "prepare_asset"
    /\ request.data.name = <<" ">>
    /\ request.upload.present
    /\ request.data.mimetype = <<"image">>
    /\ response.kind = "raised"
    /\ response.value = ErrNotEnough

\* ---------------------------------------------------------------- C5
\* the submission carries a URI (a uri field that is not empty once trimmed)
HasUri(sub) == strip(sub.data.uri) # << >>

HasWebMimetype(sub) == Contains("web", strip(sub.data.mimetype))

\* C5: prepare_asset never accepts an uploaded file together with a URI,
\* nor an uploaded file with a mimetype containing "web"; it rejects both
\* before any remote fetch and before any file is written, and when both
\* apply to a submission that has its required fields the rejection reported
\* is the web-upload one, never the URI-and-file one.
C5_UploadCombinationsRejected ==
    [][/\ op' = "prepare_asset"
       /\ request'.upload.present
       /\ HasUri(request') \/ HasWebMimetype(request')
       => /\ response'.kind = "raised"
          /\ prepared'.remote = << >>
          /\ files' = files
          /\ HasUri(request') /\ HasWebMimetype(request') =>
                /\ response'.value # ErrBoth
                /\ strip(request'.data.name) # << >> => response'.value = ErrWebUpload
    ]_vars

\* a web asset came with both a URI and a file, and the web-upload
\* rejection was reported
C5_Witness ==
    /\ op = "prepare_asset"
    /\ request.upload.present /\ request.upload.bytes # << >>
    /\ HasUri(request) /\ validate_uri(strip(request.data.uri))
    /\ HasWebMimetype(request)
    /\ response.kind = "raised"
    /\ response.value = ErrWebUpload

\* ---------------------------------------------------------------- C6
\* C6: every record prepare_asset returns for a video mimetype has
\* duration "N/A", whatever duration the submission carried.
C6_VideoDurationForced ==
    /\ op = "prepare_asset"
    /\ response.kind = "value"
    /\ Contains("video", response.value["mimetype"])
    => response.value["duration"] = <<"N/A">>

\* --------------------------------------------------------------- C10
\* C10: when prepare_asset accepts an uploaded file, the asset_id is the
\* hash of the uploaded bytes and the file at the path that asset_id names
\* under the asset folder holds exactly the uploaded bytes.
C10_StoredFileIsUpload ==
    /\ op = "prepare_asset"
    /\ response.kind = "value"
    /\ request.upload.present
    => LET id == md5(request.upload.bytes)
           stored == path_join(asset_folder, id)
       IN  /\ response.value["asset_id"] = id
           /\ response.value["uri"] = stored
           /\ stored \in DOMAIN files
           /\ files[stored] = request.upload.bytes

\* --------------------------------------------------------------- C11
\* the row's content was uploaded: its uri is a path below the asset folder
IsUploaded(row) == Contains(asset_folder, row["uri"])

\* C11: whatever create, edit and delete requests were served, every stored
\* row whose content was uploaded has as its uri the storage path derived
\* from its own asset_id, and the file at that path is there; so deleting
\* the row by its asset_id removes the file its uri names, and no row points
\* at a file that was removed.
C11_UploadedUriFollowsAssetId ==
    \A i \in 1..Len(assets) :
        IsUploaded(assets[i]) =>
            /\ assets[i]["uri"] = path_join(asset_folder, assets[i]["asset_id"])
            /\ assets[i]["uri"] \in DOMAIN files

====
